---- MODULE Spec2Model ----
(***************************************************************************)
(* FLACer (src/FLACer.py): a Streamlit page that converts uploaded FLAC    *)
(* files to MP3 or M4A.  The model has the session state, the uploader,    *)
(* the option buttons, the convert button, the batch driver process_files  *)
(* and the two converters.  Strings the code takes apart or builds         *)
(* (file names, track numbers, encoder parameters) are sequences of        *)
(* tokens, a token being a character or a dot-free, slash-free word.       *)
(***************************************************************************)
EXTENDS Integers, Sequences, FiniteSets, TLC

VARIABLES format, type, logs, uploaded_files, download, status, calls,
          request, result

vars == <<format, type, logs, uploaded_files, download, status, calls,
          request, result>>

(***************************************************************************)
(* Bounds of the model.                                                    *)
(***************************************************************************)
\* the longest uploaded list
MaxFiles == 2
\* the longest track-number string, in characters
MaxLen == 3

(***************************************************************************)
(* Python values and string methods.                                       *)
(***************************************************************************)
None == "None"

Range(s) == {s[i] : i \in 1..Len(s)}

Put(f, k, v) == [x \in DOMAIN f \cup {k} |-> IF x = k THEN v ELSE f[x]]

\* str.upper() on the option strings
upper(s) ==
    CASE s = "mp3" -> "MP3"
      [] s = "m4a" -> "M4A"
      [] s = "ogg" -> "OGG"
      [] s = "cbr" -> "CBR"
      [] s = "vbr" -> "VBR"
      [] s = "abr" -> "ABR"
      [] OTHER -> s

\* str.lower() on a tag key
lower(k) ==
    CASE k = "ALBUM" -> "album"
      [] k = "Title" -> "title"
      [] OTHER -> k

\* s.split(sep): the segments between the separators, left to right
RECURSIVE split(_, _)
split(s, sep) ==
    IF sep \notin Range(s) THEN <<s>>
    ELSE LET i == CHOOSE j \in 1..Len(s) :
                      s[j] = sep /\ \A h \in 1..(j-1) : s[h] # sep
         IN <<SubSeq(s, 1, i-1)>> \o split(SubSeq(s, i+1, Len(s)), sep)

\* s.rsplit(sep, 1): split once, at the last separator
rsplit1(s, sep) ==
    IF sep \notin Range(s) THEN <<s>>
    ELSE LET i == CHOOSE j \in 1..Len(s) :
                      s[j] = sep /\ \A h \in (j+1)..Len(s) : s[h] # sep
         IN <<SubSeq(s, 1, i-1), SubSeq(s, i+1, Len(s))>>

Digits == {"0", "1", "2", "3", "4", "5", "6", "7", "8", "9"}

DigitChar == <<"0", "1", "2", "3", "4", "5", "6", "7", "8", "9">>

DigitValue(c) == (CHOOSE i \in 1..10 : DigitChar[i] = c) - 1

\* int(s) raises ValueError unless s is a decimal literal
int_raises(s) == Len(s) = 0 \/ \E i \in 1..Len(s) : s[i] \notin Digits

RECURSIVE int(_)
int(s) ==
    IF Len(s) = 1 THEN DigitValue(s[1])
    ELSE 10 * int(SubSeq(s, 1, Len(s)-1)) + DigitValue(s[Len(s)])

\* f'{n}': the decimal digits of a non-negative integer
RECURSIVE str(_)
str(n) ==
    IF n < 10 THEN <<DigitChar[n+1]>>
    ELSE str(n \div 10) \o <<DigitChar[(n % 10) + 1]>>

(***************************************************************************)
(* Buffers.  A source file is a seekable buffer with its parsed content;   *)
(* a read moves the position.                                              *)
(***************************************************************************)
\* the size of an uploaded FLAC stream
FlacSize == 2
\* where the metadata blocks of a FLAC stream end
FlacMetaEnd == 1
\* the size of an encoded output
EncodedSize == 2

seek(buf, p) == [buf EXCEPT !.pos = p]

\* a library call that reads the buffer from where it stands up to upto
read(buf, upto) == [buf EXCEPT !.pos = upto]

Entry(level, text, arg) == [level |-> level, text |-> text, arg |-> arg]

NoContent == [container |-> None, parameters |-> <<>>, tags |-> <<>>,
              covers |-> <<>>]

NoBuffer == [pos |-> 0, size |-> 0, content |-> NoContent]

NoMeta == [tags |-> <<>>, pictures |-> <<>>]

\* the external calls of process that can raise
Faults == {"FLAC", "from_file", "export", "load", "save"}

(***************************************************************************)
(* A call of process is a run of its statements over a context c: whether  *)
(* an exception is on its way out (raised), the logger and the source      *)
(* buffer as they stand, the position of the source at each of its reads   *)
(* (reads), the metadata read, the encoder parameters and the output       *)
(* buffer.  A statement does nothing once an exception is raised.          *)
(***************************************************************************)
\* logger.append(f"INFO: Starting ... conversion for '{filename}'.")
start(file_data, logger, text, filename) ==
    [raised |-> FALSE,
     logger |-> Append(logger, Entry("INFO", text, filename)),
     file_data |-> file_data, reads |-> <<>>, flac_meta |-> NoMeta,
     parameters |-> <<>>, output_buffer |-> NoBuffer]

\* file_data.seek(0); flac_meta = mutagen.flac.FLAC(file_data); the entry
extract_metadata(fault, c) ==
    IF c.raised THEN c
    ELSE IF fault = "FLAC"
    THEN [c EXCEPT !.raised = TRUE,
                   !.file_data = seek(@, 0),
                   !.reads = Append(@, seek(c.file_data, 0).pos)]
    ELSE [c EXCEPT !.file_data = read(seek(@, 0), FlacMetaEnd),
                   !.reads = Append(@, seek(c.file_data, 0).pos),
                   !.flac_meta = [tags |-> c.file_data.meta,
                                  pictures |-> c.file_data.pictures],
                   !.logger = Append(@, Entry("INFO",
                       "Successfully extracted source metadata.", <<>>))]

\* file_data.seek(0); audio = AudioSegment.from_file(file_data); the entry
load_audio(fault, c) ==
    IF c.raised THEN c
    ELSE IF fault = "from_file"
    THEN [c EXCEPT !.raised = TRUE,
                   !.file_data = seek(@, 0),
                   !.reads = Append(@, seek(c.file_data, 0).pos)]
    ELSE [c EXCEPT !.file_data = read(seek(@, 0), c.file_data.size),
                   !.reads = Append(@, seek(c.file_data, 0).pos),
                   !.logger = Append(@, Entry("INFO",
                       "Loaded audio data.", <<>>))]

\* the entry of the bitrate mode
encoding_entry(conversion_type) ==
    IF conversion_type = "vbr"
    THEN Entry("INFO", "Applying VBR encoding (audio only).", <<>>)
    ELSE Entry("INFO", "Applying encoding (audio only).",
               <<upper(conversion_type)>>)

\* the parameters are built and logged; output_buffer = io.BytesIO();
\* audio.export(output_buffer, ...); the entry
export(fault, container, parameters, conversion_type, c) ==
    IF c.raised THEN c
    ELSE IF fault = "export"
    THEN [c EXCEPT !.raised = TRUE,
                   !.parameters = parameters,
                   !.logger = Append(@, encoding_entry(conversion_type))]
    ELSE [c EXCEPT !.parameters = parameters,
                   !.output_buffer =
                       [pos |-> EncodedSize, size |-> EncodedSize,
                        content |-> [container |-> container,
                                     parameters |-> parameters,
                                     tags |-> <<>>, covers |-> <<>>]],
                   !.logger = Append(Append(@,
                       encoding_entry(conversion_type)),
                       Entry("INFO",
                         "Audio conversion complete. Applying metadata.",
                         <<>>))]

\* output_buffer.seek(0); the tag library opens the encoded output
open_output(fault, c) ==
    IF c.raised THEN c
    ELSE IF fault = "load"
    THEN [c EXCEPT !.raised = TRUE, !.output_buffer = seek(@, 0)]
    ELSE [c EXCEPT !.output_buffer = seek(@, 0)]

\* save(output_buffer): mutagen writes the tags through the file object
\* and leaves its position behind what it wrote
save(buf, tags, covers) ==
    [pos |-> buf.size, size |-> buf.size,
     content |-> [buf.content EXCEPT !.tags = tags, !.covers = covers]]

\* meta.save(output_buffer), the two closing entries, return output_buffer
save_and_return(fault, text, filename, tags, covers, c) ==
    IF c.raised THEN c
    ELSE IF fault = "save"
    THEN [c EXCEPT !.raised = TRUE]
    ELSE [c EXCEPT !.output_buffer = save(@, tags, covers),
                   !.logger = Append(Append(@,
                       Entry("INFO", "Metadata successfully applied.", <<>>)),
                       Entry("SUCCESS", text, filename))]

\* dict.get: the mapped value, or None
get(map, k) == IF k \in DOMAIN map THEN map[k] ELSE None

(***************************************************************************)
(* MP3_LAME.process                                                        *)
(***************************************************************************)
MP3_tag_map ==
    [artist |-> "TPE1", album |-> "TALB", title |-> "TIT2",
     tracknumber |-> "TRCK", date |-> "TDRC", genre |-> "TCON"]

MP3_parameters(bitrate, conversion_type) ==
    IF conversion_type = "vbr"
    THEN << <<"-codec:a">>, <<"libmp3lame">>, <<"-id3v2_version">>, <<"3">>,
            <<"-q:a">>, <<"0">> >>
    ELSE << <<"-codec:a">>, <<"libmp3lame">>, <<"-id3v2_version">>, <<"3">>,
            <<"-b:a">>, str(bitrate) \o <<"k">> >>

\* (mutant) the last value of the tag instead of the first
MP3_add_last(tags, frame_class, value) ==
    IF frame_class # None
    THEN Put(tags, frame_class, [encoding |-> 3, text |-> value[Len(value)]])
    ELSE tags

\* frame_class(encoding=3, text=value[0]) added under its frame id
MP3_add(tags, frame_class, value) ==
    IF frame_class # None
    THEN Put(tags, frame_class, [encoding |-> 3, text |-> value[1]])
    ELSE tags

\* for key, value in flac_meta.items(): add the mapped frame
RECURSIVE MP3_tag_loop(_, _, _)
MP3_tag_loop(flac_meta, keys, tags) ==
    IF keys = {} THEN tags
    ELSE MP3_tag_loop(flac_meta,
             keys \ {CHOOSE k \in keys : TRUE},
             MP3_add(tags,
                     get(MP3_tag_map, lower(CHOOSE k \in keys : TRUE)),
                     flac_meta[CHOOSE k \in keys : TRUE]))

\* if flac_meta.pictures: add an APIC frame of the first picture
MP3_cover(pictures) ==
    IF Len(pictures) > 0
    THEN << [encoding |-> 3, mime |-> pictures[1].mime,
             type |-> pictures[1].type, desc |-> pictures[1].desc,
             data |-> pictures[1].data] >>
    ELSE <<>>

\* the tag loop and the picture, then the save
MP3_apply_metadata(fault, filename, c) ==
    save_and_return(fault, "Finished MP3 conversion for", filename,
        MP3_tag_loop(c.flac_meta.tags, DOMAIN c.flac_meta.tags,
                     c.output_buffer.content.tags),
        MP3_cover(c.flac_meta.pictures), c)

MP3_LAME_process(file_data, bitrate, conversion_type, logger, filename, fault) ==
    MP3_apply_metadata(fault, filename,
      open_output(fault,
        export(fault, "mp3", MP3_parameters(bitrate, conversion_type),
               conversion_type,
          load_audio(fault,
            extract_metadata(fault,
              start(file_data, logger, "Starting MP3 conversion for",
                    filename))))))

(***************************************************************************)
(* AAC_better.process                                                      *)
(***************************************************************************)
AAC_tag_map ==
    [artist |-> "(c)ART", album |-> "(c)alb", title |-> "(c)nam",
     tracknumber |-> "trkn", date |-> "(c)day", genre |-> "(c)gen"]

\* (mutant) the bitrate is passed in every mode
AAC_parameters_with_bitrate(bitrate, conversion_type) ==
    IF conversion_type = "vbr"
    THEN << <<"-c:a">>, <<"aac">>, <<"-q:a">>, <<"2">>,
            <<"-b:a">>, str(bitrate) \o <<"k">> >>
    ELSE << <<"-c:a">>, <<"aac">>, <<"-b:a">>, str(bitrate) \o <<"k">> >>

AAC_parameters(bitrate, conversion_type) ==
    IF conversion_type = "vbr"
    THEN << <<"-c:a">>, <<"aac">>, <<"-q:a">>, <<"2">> >>
    ELSE << <<"-c:a">>, <<"aac">>, <<"-b:a">>, str(bitrate) \o <<"k">> >>

\* the try block of the 'trkn' branch, given track_info: the pair, or the
\* ValueError caught
AAC_track_pair(track_info) ==
    IF int_raises(track_info[1])
    THEN [raised |-> TRUE, pair |-> <<0, 0>>]
    ELSE IF Len(track_info) > 1
    THEN IF int_raises(track_info[2])
         THEN [raised |-> TRUE, pair |-> <<0, 0>>]
         ELSE [raised |-> FALSE,
               pair |-> <<int(track_info[1]), int(track_info[2])>>]
    ELSE [raised |-> FALSE, pair |-> <<int(track_info[1]), 0>>]

\* track_info = value[0].split('/'), then the try block
AAC_track(text) == AAC_track_pair(split(text, "/"))

\* the 'trkn' branch: the pair is set, or the warning logged
AAC_set_track(acc, text, track) ==
    IF track.raised
    THEN [acc EXCEPT !.logger = Append(@, Entry("WARNING",
              "Could not parse track number. Skipping.", text))]
    ELSE [acc EXCEPT !.tags = Put(@, "trkn", <<track.pair>>)]

\* the body of the tag loop for one key
AAC_set(acc, tag_key, value) ==
    IF tag_key = None THEN acc
    ELSE IF tag_key = "trkn"
    THEN AAC_set_track(acc, value[1], AAC_track(value[1]))
    ELSE [acc EXCEPT !.tags = Put(@, tag_key, value[1])]

\* for key, value in flac_meta.items(): set the mapped atom
RECURSIVE AAC_tag_loop(_, _, _)
AAC_tag_loop(flac_meta, keys, acc) ==
    IF keys = {} THEN acc
    ELSE AAC_tag_loop(flac_meta,
             keys \ {CHOOSE k \in keys : TRUE},
             AAC_set(acc,
                     get(AAC_tag_map, lower(CHOOSE k \in keys : TRUE)),
                     flac_meta[CHOOSE k \in keys : TRUE]))

\* (mutant) the test is on the PNG type, JPEG the default
AAC_image_format_png_test(mime) ==
    IF mime = "image/png" THEN "FORMAT_PNG" ELSE "FORMAT_JPEG"

AAC_image_format(mime) ==
    IF mime = "image/jpeg" THEN "FORMAT_JPEG" ELSE "FORMAT_PNG"

\* if flac_meta.pictures: set 'covr' to one MP4Cover of the first picture
AAC_cover(pictures) ==
    IF Len(pictures) > 0
    THEN << [imageformat |-> AAC_image_format(pictures[1].mime),
             data |-> pictures[1].data] >>
    ELSE <<>>

\* the context with the loop's warnings logged
AAC_logged(c, mapped) == [c EXCEPT !.logger = mapped.logger]

\* the save of the mapped tags and the cover
AAC_save(fault, filename, c, mapped) ==
    save_and_return(fault, "Finished M4A conversion for", filename,
        mapped.tags, AAC_cover(c.flac_meta.pictures), AAC_logged(c, mapped))

\* the tag loop and the picture, then the save
AAC_apply_metadata(fault, filename, c) ==
    IF c.raised THEN c
    ELSE AAC_save(fault, filename, c,
             AAC_tag_loop(c.flac_meta.tags, DOMAIN c.flac_meta.tags,
                          [tags |-> c.output_buffer.content.tags,
                           logger |-> c.logger]))

AAC_better_process(file_data, bitrate, conversion_type, logger, filename, fault) ==
    AAC_apply_metadata(fault, filename,
      open_output(fault,
        export(fault, "mp4", AAC_parameters(bitrate, conversion_type),
               conversion_type,
          load_audio(fault,
            extract_metadata(fault,
              start(file_data, logger, "Starting M4A (AAC) conversion for",
                    filename))))))

(***************************************************************************)
(* Fucktory.get_converter                                                  *)
(***************************************************************************)
\* (mutant) an unknown format falls back to MP3
get_converter_default(fmt) ==
    IF fmt = "m4a" THEN [raised |-> FALSE, converter |-> "AAC_better"]
    ELSE [raised |-> FALSE, converter |-> "MP3_LAME"]

get_converter(fmt) ==
    IF fmt = "mp3" THEN [raised |-> FALSE, converter |-> "MP3_LAME"]
    ELSE IF fmt = "m4a" THEN [raised |-> FALSE, converter |-> "AAC_better"]
    ELSE [raised |-> TRUE, converter |-> None]

\* converter.process(...): the method of the converter's class
process(converter, file_data, bitrate, conversion_type, logger, filename, fault) ==
    IF converter = "MP3_LAME"
    THEN MP3_LAME_process(file_data, bitrate, conversion_type, logger,
                          filename, fault)
    ELSE AAC_better_process(file_data, bitrate, conversion_type, logger,
                            filename, fault)

(***************************************************************************)
(* process_files: the batch driver.  fault names the file (k, 0 for none)  *)
(* and the external call at which a converter raises.                      *)
(***************************************************************************)
NoDownload == [kind |-> "none", label |-> <<>>, data |-> <<>>,
               file_name |-> <<>>, mime |-> None]

NoFault == [k |-> 0, at |-> None]

FaultsOf(n) == {NoFault} \cup {[k |-> k, at |-> a] : k \in 1..n, a \in Faults}

fault_at(fault, i) == IF fault.k = i THEN fault.at ELSE None

separator == Entry("SEP", "------------------------------", <<>>)

error_entry == Entry("ERROR", "An unexpected error occurred", <<>>)

\* what one invocation of converter.process saw and did
Call(name, nfiles, r) ==
    [filename |-> name, nfiles |-> nfiles, format |-> format,
     type |-> type, reads |-> r.reads, raised |-> r.raised,
     out_pos |-> r.output_buffer.pos]

\* (mutant) the name is cut at its first dot
new_filename_first_dot(name, selected_format) ==
    split(name, ".")[1] \o <<".">> \o <<selected_format>>

\* f"{file.name.rsplit('.', 1)[0]}.{selected_format}"
new_filename(name, selected_format) ==
    rsplit1(name, ".")[1] \o <<".">> \o <<selected_format>>

\* (mutant) the list is not replaced
fresh_log_kept(old) == old

\* st.session_state.logs = []: the list the logger starts from
fresh_log(old) == <<>>

\* the two entries of the batch header
header(logger, n, selected_format, conversion_type) ==
    Append(Append(logger,
        Entry("BATCH START", "Initializing conversion for file(s).", <<n>>)),
        Entry("BATCH INFO", "Target format, Type.",
              <<upper(selected_format), upper(conversion_type)>>))

\* except Exception as e: the error entry and st.error
failed(logger, files, made) ==
    [logs |-> Append(logger, error_entry), files |-> files,
     download |-> NoDownload, status |-> "error", calls |-> made]

\* the single-file branch after converter.process returned r
single(selected_format, file, r) ==
    IF r.raised
    THEN failed(r.logger, <<r.file_data>>, <<Call(file.name, 1, r)>>)
    ELSE [logs |-> r.logger,
          files |-> <<r.file_data>>,
          download |->
            [kind |-> "file",
             label |-> <<"Download", upper(selected_format)>>,
             data |-> r.output_buffer,
             file_name |-> new_filename(file.name, selected_format),
             mime |-> IF selected_format = "mp3"
                      THEN "audio/mpeg" ELSE "audio/mp4"],
          status |-> "success",
          calls |-> <<Call(file.name, 1, r)>>]

\* the body of the archive loop after converter.process returned r
zip_write(selected_format, acc, i, r) ==
    [logger |-> r.logger,
     files |-> [acc.files EXCEPT ![i] = r.file_data],
     entries |-> IF r.raised THEN acc.entries
                 ELSE Append(acc.entries,
                        [name |-> new_filename(acc.files[i].name,
                                               selected_format),
                         data |-> r.output_buffer.content]),
     calls |-> Append(acc.calls,
                      Call(acc.files[i].name, Len(acc.files), r)),
     raised |-> r.raised]

\* for i, file in enumerate(files): the two entries, process, writestr
RECURSIVE zip_loop(_, _, _, _, _, _)
zip_loop(converter, selected_format, conversion_type, fault, i, acc) ==
    IF i > Len(acc.files) \/ acc.raised THEN acc
    ELSE zip_loop(converter, selected_format, conversion_type, fault, i + 1,
             zip_write(selected_format, acc, i,
                 process(converter, acc.files[i], 320, conversion_type,
                         Append(Append(acc.logger, separator),
                                Entry("INFO", "Processing file",
                                      <<i, Len(acc.files)>>)),
                         acc.files[i].name, fault_at(fault, i))))

\* (mutant) the archive of the files converted so far is still offered
zipped_partial(z) ==
    [logs |-> IF z.raised THEN Append(z.logger, error_entry) ELSE z.logger,
     files |-> z.files,
     download |->
       [kind |-> "zip",
        label |-> <<"Download All as ZIP">>,
        data |-> z.entries,
        file_name |-> <<"converted_audio", ".", "zip">>,
        mime |-> "application/zip"],
     status |-> IF z.raised THEN "error" ELSE "success",
     calls |-> z.calls]

\* the archive branch after the loop left z
zipped(z) ==
    IF z.raised
    THEN failed(z.logger, z.files, z.calls)
    ELSE [logs |-> Append(Append(z.logger, separator),
                     Entry("BATCH SUCCESS",
                       "All files converted and zipped successfully!", <<>>)),
          files |-> z.files,
          download |->
            [kind |-> "zip",
             label |-> <<"Download All as ZIP">>,
             data |-> z.entries,
             file_name |-> <<"converted_audio", ".", "zip">>,
             mime |-> "application/zip"],
          status |-> "success",
          calls |-> z.calls]

\* the try block, given the header's logger and get_converter's result
convert(files, fault, selected_format, conversion_type, logger, got) ==
    IF got.raised
    THEN failed(logger, files, <<>>)
    ELSE IF Len(files) = 1
    THEN single(selected_format, files[1],
             process(got.converter, files[1], 320, conversion_type, logger,
                     files[1].name, fault_at(fault, 1)))
    ELSE zipped(zip_loop(got.converter, selected_format, conversion_type,
                    fault, 1,
                    [logger |-> logger, files |-> files, entries |-> <<>>,
                     calls |-> <<>>, raised |-> FALSE]))

\* the state process_files leaves: [logs, files, download, status, calls]
process_files(files, fault) ==
    convert(files, fault, format, type,
            header(fresh_log(logs), Len(files), format, type),
            get_converter(format))

(***************************************************************************)
(* The uploads.  The uploader accepts files named <stem>.<flac extension>; *)
(* a file's tags map a key to its values, its pictures are in file order.  *)
(***************************************************************************)
Picture(mime, data) == [mime |-> mime, type |-> 3, desc |-> <<>>, data |-> data]

Stems == { <<"a">>, <<"b", ".", "c">> }

Exts == { "flac", "FLAC" }

Upload(name, meta, pictures) ==
    [name |-> name, pos |-> 0, size |-> FlacSize, meta |-> meta,
     pictures |-> pictures]

Library ==
    { Upload(<<"a", ".", "flac">>,
             [title |-> << <<"x">> >>,
              tracknumber |-> << <<"1", "/", "2">> >>],
             << Picture("image/jpeg", "d1"), Picture("image/png", "d2") >>),
      Upload(<<"b", ".", "c", ".", "flac">>,
             [artist |-> << <<"y">>, <<"x">> >>,
              tracknumber |-> << <<"a">> >>,
              comment |-> << <<"x">> >>],
             <<>>),
      Upload(<<"a", ".", "FLAC">>,
             [ALBUM |-> << <<"x">> >>],
             << Picture("image/gif", "d1") >>) }

Formats == {"mp3", "m4a"}

Types == {"cbr", "vbr", "abr"}

names(files) == {files[i].name : i \in 1..Len(files)}

(***************************************************************************)
(* The page.  Every interaction reruns the script: the download button and *)
(* the message of a conversion are on the page of that run only, the       *)
(* session state (format, type, logs) and the uploaded files persist.      *)
(***************************************************************************)
NoRequest == [converter |-> None, file_data |-> Upload(<<>>, <<>>, <<>>),
              bitrate |-> 0, conversion_type |-> None, logger |-> <<>>,
              filename |-> <<>>, fault |-> None]

NoResult == [called |-> FALSE,
             out |-> start(Upload(<<>>, <<>>, <<>>), <<>>, None, <<>>)]

\* main: the session state of a new session
main ==
    /\ format = None
    /\ type = None
    /\ logs = <<>>

Init ==
    /\ main
    /\ uploaded_files = <<>>
    /\ download = NoDownload
    /\ status = "none"
    /\ calls = <<>>
    /\ request = NoRequest
    /\ result = NoResult

\* a rerun in which the convert button was not pressed
rerun ==
    /\ download' = NoDownload
    /\ status' = "none"
    /\ calls' = <<>>

\* one of the six option buttons: the callback, then the rerun
select_option(fmt, t) ==
    /\ format' = fmt
    /\ type' = t
    /\ rerun
    /\ UNCHANGED <<logs, uploaded_files, request, result>>

\* the uploader: the user adds a file (one not in the list yet)
file_uploader_add(file) ==
    /\ Len(uploaded_files) < MaxFiles
    /\ file.name \notin names(uploaded_files)
    /\ uploaded_files' = Append(uploaded_files, file)
    /\ rerun
    /\ UNCHANGED <<format, type, logs, request, result>>

\* the uploader: the user removes a file
file_uploader_remove(i) ==
    /\ i \in 1..Len(uploaded_files)
    /\ uploaded_files' = SubSeq(uploaded_files, 1, i-1)
                            \o SubSeq(uploaded_files, i+1, Len(uploaded_files))
    /\ rerun
    /\ UNCHANGED <<format, type, logs, request, result>>

\* the page after process_files returned
shown(after) ==
    /\ logs' = after.logs
    /\ uploaded_files' = after.files
    /\ download' = after.download
    /\ status' = after.status
    /\ calls' = after.calls

\* (mutant) the uploaded list is not tested
convert_button_unchecked ==
    /\ format # None /\ type # None
    /\ \E fault \in FaultsOf(Len(uploaded_files)) :
           shown(process_files(uploaded_files, fault))
    /\ UNCHANGED <<format, type, request, result>>

\* the convert button, which is enabled once an option is selected
convert_button ==
    /\ format # None /\ type # None
    /\ IF Len(uploaded_files) > 0
       THEN \E fault \in FaultsOf(Len(uploaded_files)) :
                shown(process_files(uploaded_files, fault))
       ELSE /\ status' = "warning"
            /\ download' = NoDownload
            /\ calls' = <<>>
            /\ UNCHANGED <<logs, uploaded_files>>
    /\ UNCHANGED <<format, type, request, result>>

Next ==
    \/ \E fmt \in Formats, t \in Types : select_option(fmt, t)
    \/ \E file \in Library : file_uploader_add(file)
    \/ \E i \in 1..MaxFiles : file_uploader_remove(i)
    \/ convert_button

Spec == Init /\ [][Next]_vars

(***************************************************************************)
(* process_files on its own: the session state it reads holds any format   *)
(* string, and the log may hold an earlier run's entries.                  *)
(***************************************************************************)
FormatStrings == Formats \cup {"ogg"}

\* the lists of distinct uploads, in any order
RECURSIVE Uploads(_)
Uploads(n) ==
    IF n = 0 THEN {<<>>}
    ELSE Uploads(n - 1) \cup
         {Append(fs, f) : fs \in {gs \in Uploads(n - 1) : Len(gs) = n - 1},
                          f \in Library}

Distinct(files) == Cardinality(names(files)) = Len(files)

BatchInit ==
    /\ format \in FormatStrings
    /\ type \in Types
    /\ logs \in {<<>>, <<error_entry>>}
    /\ uploaded_files \in {fs \in Uploads(MaxFiles) :
                              Len(fs) > 0 /\ Distinct(fs)}
    /\ download = NoDownload
    /\ status = "none"
    /\ calls = <<>>
    /\ request = NoRequest
    /\ result = NoResult

\* process_files(uploaded_files)
call_process_files ==
    /\ \E fault \in FaultsOf(Len(uploaded_files)) :
           shown(process_files(uploaded_files, fault))
    /\ UNCHANGED <<format, type, request, result>>

BatchNext == call_process_files

SpecBatch == BatchInit /\ [][BatchNext]_vars

(***************************************************************************)
(* A converter's process on its own: the arguments of one call.            *)
(***************************************************************************)
\* the most text tags of a source
MaxTags == 2

Converters == {"MP3_LAME", "AAC_better"}

Bitrates == {96, 128, 320}

Mimes == {"image/jpeg", "image/png", "image/gif"}

PictureLists ==
    {<<>>} \cup {<<Picture(m, "d1")>> : m \in Mimes}
           \cup {<<Picture(m, "d1"), Picture(n, "d2")>> :
                     m \in Mimes, n \in Mimes \ {"image/gif"}}

\* the text tags a source may carry: the key and its values
TextValues ==
    [artist |-> << <<"x">>, <<"y">> >>, ALBUM |-> << <<"y">> >>,
     Title |-> << <<"x", "y">> >>, date |-> << <<"1", "9">> >>,
     genre |-> << <<"y", "x">> >>, comment |-> << <<"x">>, <<"x">> >>]

TextMetas ==
    {[k \in K |-> TextValues[k]] :
        K \in {S \in SUBSET DOMAIN TextValues : Cardinality(S) <= MaxTags}}

TrackChars == {"1", "2", "/", "a"}

TrackStrings == UNION {[1..n -> TrackChars] : n \in 0..MaxLen}

Metas ==
    TextMetas \cup {Put(m, "tracknumber", <<t>>) :
                       m \in TextMetas, t \in TrackStrings}

Request(converter, file_data, bitrate, conversion_type, fault) ==
    [converter |-> converter, file_data |-> file_data, bitrate |-> bitrate,
     conversion_type |-> conversion_type, logger |-> <<>>,
     filename |-> file_data.name, fault |-> fault]

Source(pos, meta, pictures) ==
    [Upload(<<"a", ".", "flac">>, meta, pictures) EXCEPT !.pos = pos]

\* every tag set, at the page's bitrate
TagRequests ==
    {Request(c, Source(0, m, <<>>), 320, "cbr", None) :
        c \in Converters, m \in Metas}

\* every picture list
PictureRequests ==
    {Request(c, Source(0, [ALBUM |-> TextValues["ALBUM"]], ps), 320, t, None) :
        c \in Converters, ps \in PictureLists, t \in {"cbr", "vbr"}}

\* every bitrate mode and bitrate, from any position of the source, with
\* any external call raising
EncodingRequests ==
    {Request(c, Source(pos, [Title |-> TextValues["Title"]], <<>>), b, t, f) :
        c \in Converters, pos \in 0..FlacSize, b \in Bitrates, t \in Types,
        f \in Faults \cup {None}}

ProcessInit ==
    /\ main
    /\ uploaded_files = <<>>
    /\ download = NoDownload
    /\ status = "none"
    /\ calls = <<>>
    /\ request \in TagRequests \cup PictureRequests \cup EncodingRequests
    /\ result = NoResult

\* converter.process(file_data, bitrate, conversion_type, logger, filename)
call_process ==
    /\ ~result.called
    /\ result' = [called |-> TRUE,
                  out |-> process(request.converter, request.file_data,
                                  request.bitrate, request.conversion_type,
                                  request.logger, request.filename,
                                  request.fault)]
    /\ UNCHANGED <<format, type, logs, uploaded_files, download, status,
                   calls, request>>

ProcessNext == call_process

SpecProcess == ProcessInit /\ [][ProcessNext]_vars

(***************************************************************************)
(* What the claims speak of.                                               *)
(***************************************************************************)
Recognized == {"artist", "album", "title", "tracknumber", "date", "genre"}

\* the key of a source tag, case folded
Folded(k) ==
    CASE k = "ALBUM" -> "album"
      [] k = "Title" -> "title"
      [] OTHER -> k

\* the output field of a recognized key, per converter
Field(converter, key) ==
    IF converter = "MP3_LAME"
    THEN CASE key = "artist" -> "TPE1" [] key = "album" -> "TALB"
           [] key = "title" -> "TIT2" [] key = "tracknumber" -> "TRCK"
           [] key = "date" -> "TDRC" [] key = "genre" -> "TCON"
    ELSE CASE key = "artist" -> "(c)ART" [] key = "album" -> "(c)alb"
           [] key = "title" -> "(c)nam" [] key = "tracknumber" -> "trkn"
           [] key = "date" -> "(c)day" [] key = "genre" -> "(c)gen"

Returned == result.called /\ ~result.out.raised

SourceTags == request.file_data.meta

SourcePictures == request.file_data.pictures

OutTags == result.out.output_buffer.content.tags

OutCovers == result.out.output_buffer.content.covers

HasLevel(logger, level) == \E i \in 1..Len(logger) : logger[i].level = level

IsDigits(s) == Len(s) > 0 /\ \A i \in 1..Len(s) : s[i] \in Digits

\* a track number "N" or "N/M..." with N and M decimal
Parses(t) ==
    /\ IsDigits(split(t, "/")[1])
    /\ Len(split(t, "/")) > 1 => IsDigits(split(t, "/")[2])

\* its track index and total
Pair(t) ==
    <<int(split(t, "/")[1]),
      IF Len(split(t, "/")) > 1 THEN int(split(t, "/")[2]) ELSE 0>>

\* the recognized keys but tracknumber are on the output, first value kept
TextTagsCopied ==
    \A k \in DOMAIN SourceTags :
        Folded(k) \in Recognized \ {"tracknumber"} =>
            /\ Field(request.converter, Folded(k)) \in DOMAIN OutTags
            /\ IF request.converter = "MP3_LAME"
               THEN OutTags[Field(request.converter, Folded(k))].text
                        = SourceTags[k][1]
               ELSE OutTags[Field(request.converter, Folded(k))]
                        = SourceTags[k][1]

\* the output carries no field but those of the source's recognized keys
NothingElseWritten ==
    DOMAIN OutTags \subseteq
        {Field(request.converter, Folded(k)) :
            k \in {j \in DOMAIN SourceTags : Folded(j) \in Recognized}}

\* the track field holds the source's track number: its text on an MP3, the
\* pair that reads as the text on an M4A
TrackCopied ==
    "tracknumber" \in DOMAIN SourceTags =>
        /\ Field(request.converter, "tracknumber") \in DOMAIN OutTags
        /\ IF request.converter = "MP3_LAME"
           THEN OutTags["TRCK"].text = SourceTags["tracknumber"][1]
           ELSE \/ SourceTags["tracknumber"][1]
                      = str(OutTags["trkn"][1][1])
                \/ SourceTags["tracknumber"][1]
                      = str(OutTags["trkn"][1][1]) \o <<"/">>
                            \o str(OutTags["trkn"][1][2])

\* C5 (as claimed): both converters split the track number on '/': "N/M"
\* gives index N and total M, "N" gives N and 0; a segment that is no integer
\* gives a WARNING entry and no track tag, the other recognized tags are
\* still written and process returns.
C5_TrackParsedByBoth ==
    (result.called /\ request.fault = None
        /\ "tracknumber" \in DOMAIN SourceTags) =>
        /\ ~result.out.raised
        /\ TextTagsCopied
        /\ IF Parses(SourceTags["tracknumber"][1])
           THEN /\ Field(request.converter, "tracknumber") \in DOMAIN OutTags
                /\ request.converter = "AAC_better" =>
                       OutTags["trkn"] = <<Pair(SourceTags["tracknumber"][1])>>
           ELSE /\ Field(request.converter, "tracknumber") \notin DOMAIN OutTags
                /\ HasLevel(result.out.logger, "WARNING")

\* C6 (as claimed): on both converters every recognized source tag is on the
\* output with the source's value, every other source tag is absent, and
\* no warning is logged for it.
C6_EveryRecognizedTagCopied ==
    Returned =>
        /\ TextTagsCopied
        /\ TrackCopied
        /\ NothingElseWritten
        /\ "tracknumber" \notin DOMAIN SourceTags =>
               ~HasLevel(result.out.logger, "WARNING")

\* C6 (amended): on both converters every source tag with a key in {artist,
\* album, title, date, genre} is on the output with the source's first
\* value, and the MP3 converter copies tracknumber the same way; the M4A
\* converter writes tracknumber as the pair (index, total) when it parses
\* and leaves it out when it does not; every other source tag is absent and
\* logs no warning.
C6_RecognizedTagsCopied ==
    Returned =>
        /\ TextTagsCopied
        /\ NothingElseWritten
        /\ "tracknumber" \notin DOMAIN SourceTags =>
               ~HasLevel(result.out.logger, "WARNING")
        /\ "tracknumber" \in DOMAIN SourceTags =>
               IF request.converter = "MP3_LAME"
               THEN TrackCopied
               ELSE IF Parses(SourceTags["tracknumber"][1])
               THEN /\ "trkn" \in DOMAIN OutTags
                    /\ OutTags["trkn"]
                           = <<Pair(SourceTags["tracknumber"][1])>>
               ELSE "trkn" \notin DOMAIN OutTags

\* an M4A output of a source with two text tags, a foreign one among them,
\* and a track number "1/2"
C6_Witness ==
    /\ Returned
    /\ request.converter = "AAC_better"
    /\ DOMAIN SourceTags = {"artist", "comment", "tracknumber"}
    /\ SourceTags["tracknumber"][1] = <<"1", "/", "2">>
    /\ DOMAIN OutTags = {"(c)ART", "trkn"}
    /\ OutTags["trkn"] = << <<1, 2>> >>
    /\ OutTags["(c)ART"] = <<"x">>

\* the image-format indicator of an output's cover
Indicator(converter, cover) ==
    IF converter = "AAC_better"
    THEN CASE cover.imageformat = "FORMAT_JPEG" -> "JPEG"
           [] cover.imageformat = "FORMAT_PNG" -> "PNG"
    ELSE CASE cover.mime = "image/jpeg" -> "JPEG"
           [] cover.mime = "image/png" -> "PNG"
           [] OTHER -> cover.mime

\* one cover, of the first picture, or none when the source has none
OneCoverOfFirstPicture ==
    IF Len(SourcePictures) > 0
    THEN Len(OutCovers) = 1 /\ OutCovers[1].data = SourcePictures[1].data
    ELSE OutCovers = <<>>

Follows(parameters, flag, value) ==
    \E i \in 1..(Len(parameters) - 1) :
        parameters[i] = <<flag>> /\ parameters[i+1] = value

Has(parameters, flag) == \E i \in 1..Len(parameters) : parameters[i] = <<flag>>

\* the bitrate parameter of a request
Kbps(bitrate) ==
    CASE bitrate = 96 -> <<"9", "6", "k">>
      [] bitrate = 128 -> <<"1", "2", "8", "k">>
      [] bitrate = 320 -> <<"3", "2", "0", "k">>

\* C8: once process comes to the encoder, its parameters are, for 'vbr',
\* the format's fixed list with quality 0 (MP3) or 2 (M4A) and no bitrate,
\* whatever the bitrate asked; for 'cbr' and 'abr', the bitrate asked as
\* '<bitrate>k' and no quality.
C8_Parameters ==
    (result.called /\ request.fault \notin {"FLAC", "from_file"}) =>
        IF request.conversion_type = "vbr"
        THEN /\ result.out.parameters =
                  IF request.converter = "MP3_LAME"
                  THEN << <<"-codec:a">>, <<"libmp3lame">>,
                          <<"-id3v2_version">>, <<"3">>,
                          <<"-q:a">>, <<"0">> >>
                  ELSE << <<"-c:a">>, <<"aac">>, <<"-q:a">>, <<"2">> >>
             /\ ~Has(result.out.parameters, "-b:a")
        ELSE /\ Follows(result.out.parameters, "-b:a", Kbps(request.bitrate))
             /\ ~Has(result.out.parameters, "-q:a")

\* an M4A call in mode 'vbr' asking 128, and its four parameters
C8_Witness ==
    /\ result.called
    /\ request.converter = "AAC_better"
    /\ request.conversion_type = "vbr"
    /\ request.bitrate = 128
    /\ Len(result.out.parameters) = 4

\* C9 (as claimed): a call that returns hands back the output buffer at
\* position zero, and the source stood at zero at each of its two reads.
C9_ReturnedAtZero ==
    Returned =>
        /\ result.out.output_buffer.pos = 0
        /\ result.out.reads = <<0, 0>>

\* the stem of an uploaded name: what stands before its extension
StemOf(name) ==
    CHOOSE stem \in Stems : \E ext \in Exts : name = stem \o <<".", ext>>

Levels(logger) == [i \in 1..Len(logger) |-> logger[i].level]

Count(logger, level) ==
    Cardinality({i \in 1..Len(logger) : logger[i].level = level})

\* C1: a run that ends without error offers, for one uploaded file, the
\* bare output under <stem>.<format> and no archive; for N > 1 files, one
\* archive of N entries, entry i named <stem of file i>.<format>.
C1_Outputs ==
    /\ status = "success" =>
        IF Len(uploaded_files) = 1
        THEN /\ download.kind = "file"
             /\ download.file_name
                    = StemOf(uploaded_files[1].name) \o <<".", format>>
        ELSE /\ download.kind = "zip"
             /\ Len(download.data) = Len(uploaded_files)
             /\ \A i \in 1..Len(uploaded_files) :
                    download.data[i].name
                        = StemOf(uploaded_files[i].name) \o <<".", format>>
    /\ download.kind # "none" => status = "success"

\* the archive of b.c.flac and a.flac converted to M4A
C1_Witness ==
    /\ status = "success"
    /\ download.kind = "zip"
    /\ Len(uploaded_files) = 2
    /\ download.data[1].name = <<"b", ".", "c", ".", "m4a">>
    /\ download.data[2].name = <<"a", ".", "m4a">>

\* C2: when process raises on file k, it was invoked on files 1..k and on
\* no file after k, nothing is offered for download, and the log of the run
\* holds one ERROR entry, its last.
C2_Abort ==
    /\ Count(logs, "ERROR") <= 1
    /\ (\E i \in 1..Len(calls) : calls[i].raised) => status = "error"
    /\ status = "error" =>
        /\ download.kind = "none"
        /\ Count(logs, "ERROR") = 1
        /\ logs[Len(logs)].level = "ERROR"
        /\ Len(calls) \in 1..Len(uploaded_files)
        /\ calls[Len(calls)].raised
        /\ \A i \in 1..(Len(calls) - 1) : ~calls[i].raised
        /\ \A i \in 1..Len(calls) : calls[i].filename = uploaded_files[i].name

\* a batch of two whose first file failed: the second was never converted
C2_Witness ==
    /\ status = "error"
    /\ Len(uploaded_files) = 2
    /\ Len(calls) = 1
    /\ calls[1].raised
    /\ download.kind = "none"

\* C3 (as claimed): with a format other than "mp3" and "m4a" get_converter
\* fails, no converter is invoked, nothing is offered, and the log holds
\* nothing but the rejection entry.
C3_OnlyRejectionLogged ==
    (format \notin {"mp3", "m4a"} /\ status # "none") =>
        /\ get_converter(format).raised
        /\ calls = <<>>
        /\ download.kind = "none"
        /\ Levels(logs) = <<"ERROR">>

\* C3 (amended): with a format other than "mp3" and "m4a" get_converter
\* fails, no converter is invoked, nothing is offered, and the log holds
\* the two entries of the batch header and then the rejection entry, and
\* no entry of any file.
C3_Rejected ==
    (format \notin {"mp3", "m4a"} /\ status # "none") =>
        /\ get_converter(format).raised
        /\ status = "error"
        /\ calls = <<>>
        /\ download.kind = "none"
        /\ Levels(logs) = <<"BATCH START", "BATCH INFO", "ERROR">>

\* a batch of two files asked in "ogg", rejected
C3_Witness ==
    /\ format = "ogg"
    /\ status = "error"
    /\ Len(uploaded_files) = 2
    /\ Len(logs) = 3

\* process runs only with a file uploaded and both options set, and the
\* options are set or unset together
C4_Guarded ==
    /\ (format = None) <=> (type = None)
    /\ \A i \in 1..Len(calls) :
           /\ calls[i].nfiles >= 1
           /\ calls[i].format \in {"mp3", "m4a"}
           /\ calls[i].type \in {"cbr", "vbr", "abr"}
    /\ calls # <<>> =>
           /\ Len(uploaded_files) >= 1
           /\ format # None /\ type # None

\* C4: a converter's process is invoked only with at least one file
\* uploaded and the format and bitrate mode set, the two being always set
\* or unset together; and the convert button pressed with no file leaves
\* the log as it was and invokes no converter.
C4_ConvertPreconditions ==
    /\ []C4_Guarded
    /\ [][(uploaded_files = <<>> /\ convert_button) =>
             (logs' = logs /\ calls' = <<>>)]_vars

\* the convert button pressed with no file after an earlier run
C4_Witness ==
    /\ status = "warning"
    /\ uploaded_files = <<>>
    /\ logs # <<>>
    /\ calls = <<>>

StartTexts == {"Starting MP3 conversion for",
               "Starting M4A (AAC) conversion for"}

IsStart(e) == e.level = "INFO" /\ e.text \in StartTexts

StartsOf(logger) == {i \in 1..Len(logger) : IsStart(logger[i])}

\* C10: the log holds the entries of the latest run only: one batch header,
\* at its head, which right after a run is that of the uploaded files and
\* the selected options; and when the run has more than one file, between
\* the start entries of two consecutive files stand the success entry of
\* the first and, after it, a separator line; a file's success entry
\* follows its start entry.
C10_LogOfLatestRun ==
    /\ logs # <<>> =>
        /\ Count(logs, "BATCH START") = 1
        /\ logs[1].level = "BATCH START"
        /\ logs[2].level = "BATCH INFO"
    /\ status \in {"success", "error"} =>
        /\ logs[1].arg = <<Len(uploaded_files)>>
        /\ logs[2].arg = <<upper(format), upper(type)>>
        /\ \A i \in 1..Len(calls) :
               \E s \in StartsOf(logs) : logs[s].arg = calls[i].filename
        /\ Cardinality(StartsOf(logs)) = Len(calls)
    /\ \A e \in 1..Len(logs) :
           logs[e].level = "SUCCESS" =>
               \E s \in StartsOf(logs) :
                   /\ s < e
                   /\ logs[s].arg = logs[e].arg
                   /\ \A m \in (s+1)..(e-1) : ~IsStart(logs[m])
    /\ \A s \in StartsOf(logs), t \in StartsOf(logs) :
           s < t =>
               \E e \in (s+1)..(t-1), p \in (s+1)..(t-1) :
                   /\ logs[e].level = "SUCCESS"
                   /\ logs[e].arg = logs[s].arg
                   /\ e < p
                   /\ logs[p] = separator

\* the log of a run of two files, both converted: the header, and for each
\* file a separator, its start and its success, and the closing separator
C10_Witness ==
    /\ status = "success"
    /\ Len(uploaded_files) = 2
    /\ Cardinality(StartsOf(logs)) = 2
    /\ Count(logs, "SUCCESS") = 2
    /\ Count(logs, "SEP") = 3
    /\ uploaded_files[1].pos = FlacSize

====
